---- MODULE Spec2Model ----
(***************************************************************************)
(* Model of src/src/gateway/chat-attachments.ts: the gateway's untrusted   *)
(* attachment ingestion (parseMessageWithAttachments,                      *)
(* getFirstAudioAttachment, buildMessageWithAttachments).                  *)
(*                                                                         *)
(* A JavaScript string is a sequence of one-character strings, so that     *)
(* trimming, splitting, lower-casing, padding and prefix tests are         *)
(* computed character by character as the code computes them.  A decoded   *)
(* Buffer is the record of its length and of the base64 characters it was  *)
(* decoded from.                                                           *)
(***************************************************************************)
EXTENDS Integers, Sequences, FiniteSets, TLC

VARIABLES attachments, parsed, audio, built

vars == <<attachments, parsed, audio, built>>

\* ------------------------------------------------------------ JS values

\* The JavaScript value undefined (no string has a many-character element).
Undefined == <<"undefined">>

\* A content value that is not a string (typeof content !== "string").
NotString == <<"object">>

\* The JavaScript value null: a null entry of the attachment array (the
\* loops' !att test) and the "no audio" result.
Null == [isNull |-> TRUE]

IMAGE_PNG == <<"i", "m", "a", "g", "e", "/", "p", "n", "g">>
IMAGE_JPEG == <<"i", "m", "a", "g", "e", "/", "j", "p", "e", "g">>
AUDIO_M4A == <<"a", "u", "d", "i", "o", "/", "m", "4", "a">>
AUDIO_MPEG == <<"a", "u", "d", "i", "o", "/", "m", "p", "e", "g">>
VIDEO_MP4 == <<"v", "i", "d", "e", "o", "/", "m", "p", "4">>
APPLICATION_PDF == <<"a", "p", "p", "l", "i", "c", "a", "t", "i", "o", "n", "/", "p", "d", "f">>
IMAGE_PNG_RAW == <<"I", "m", "a", "g", "e", "/", "P", "N", "G", ";", " ", "q", "=", "1">>
AUDIO_OCTET_STREAM == <<"a", "u", "d", "i", "o", "/", "o", "c", "t", "e", "t", "-", "s", "t", "r", "e", "a", "m">>

UpperChars == <<"A", "B", "C", "D", "E", "F", "G", "H", "I", "J", "K", "L", "M", "N", "O", "P", "Q", "R", "S", "T", "U", "V", "W", "X", "Y", "Z">>
LowerChars == <<"a", "b", "c", "d", "e", "f", "g", "h", "i", "j", "k", "l", "m", "n", "o", "p", "q", "r", "s", "t", "u", "v", "w", "x", "y", "z">>
DigitChars == <<"1", "2", "3", "4", "5", "6", "7", "8", "9">>

\* The class [A-Za-z0-9+/=] of the charset tests.
Base64Chars ==
  {UpperChars[i] : i \in 1..26} \cup {LowerChars[i] : i \in 1..26}
    \cup {"0", "1", "2", "3", "4", "5", "6", "7", "8", "9", "+", "/", "="}

\* ------------------------------------------------------ string helpers

IsWhitespace(c) == c \in {" ", "\t", "\n", "\r"}

RECURSIVE TrimStart(_)
TrimStart(s) ==
  IF s # <<>> /\ IsWhitespace(Head(s)) THEN TrimStart(Tail(s)) ELSE s

RECURSIVE TrimEnd(_)
TrimEnd(s) ==
  IF s # <<>> /\ IsWhitespace(s[Len(s)]) THEN TrimEnd(SubSeq(s, 1, Len(s) - 1)) ELSE s

\* String.prototype.trim
Trim(s) == TrimEnd(TrimStart(s))

LowerChar(c) ==
  IF \E i \in 1..26 : UpperChars[i] = c
    THEN LowerChars[CHOOSE i \in 1..26 : UpperChars[i] = c]
    ELSE c

\* String.prototype.toLowerCase
ToLowerCase(s) == [i \in 1..Len(s) |-> LowerChar(s[i])]

\* String.prototype.startsWith
StartsWith(s, p) == Len(s) >= Len(p) /\ SubSeq(s, 1, Len(p)) = p

\* Index of the first c in s, 0 when there is none.
IndexOf(s, c) ==
  IF \E i \in 1..Len(s) : s[i] = c
    THEN CHOOSE i \in 1..Len(s) : s[i] = c /\ \A j \in 1..(i - 1) : s[j] # c
    ELSE 0

\* s.split(c)[0]
SplitFirst(s, c) == IF IndexOf(s, c) = 0 THEN s ELSE SubSeq(s, 1, IndexOf(s, c) - 1)

\* "x".repeat(n)
Repeat(c, n) == [i \in 1..n |-> c]

\* s.replace(/a/g, "b") for single characters
ReplaceChar(s, a, b) == [i \in 1..Len(s) |-> IF s[i] = a THEN b ELSE s[i]]

Min(a, b) == IF a <= b THEN a ELSE b

\* ------------------------------------------------------- normalization

\* cleaned || undefined
OrUndefined(cleaned) == IF cleaned = <<>> THEN Undefined ELSE cleaned

normalizeMime(mime) ==
  IF mime = Undefined \/ mime = <<>>
    THEN Undefined
    ELSE OrUndefined(ToLowerCase(Trim(SplitFirst(mime, ";"))))

\* /^data:[^;]+;base64,(.*)$/ : "data:", one or more characters other than
\* ";", then ";base64," and a rest without a line terminator.  The result is
\* the rest, or Undefined when the text does not match.
DataUrlMatch(t, semi) ==
  /\ StartsWith(t, <<"d", "a", "t", "a", ":">>)
  /\ semi >= 7
  /\ StartsWith(SubSeq(t, semi, Len(t)), <<";", "b", "a", "s", "e", "6", "4", ",">>)
  /\ \A i \in (semi + 8)..Len(t) : t[i] \notin {"\n", "\r"}

\* match ? match[1] : trimmed, the first ";" of trimmed being at semi
MatchOrTrimmed(trimmed, semi) ==
  IF DataUrlMatch(trimmed, semi) THEN SubSeq(trimmed, semi + 8, Len(trimmed)) ELSE trimmed

FirstSemicolon(trimmed) == MatchOrTrimmed(trimmed, IndexOf(trimmed, ";"))

stripDataUrlPrefix(content) == FirstSemicolon(Trim(content))

\* const remainder = s.length % 4; if (remainder) s += "=".repeat(4 - remainder)
PadToMultipleOf4(s) == IF Len(s) % 4 # 0 THEN s \o Repeat("=", 4 - (Len(s) % 4)) ELSE s

normalizeBase64ForDecode(content) ==
  PadToMultipleOf4(
    ReplaceChar(ReplaceChar(Trim(stripDataUrlPrefix(content)), "-", "+"), "_", "/"))

\* /[^A-Za-z0-9+/=]/.test(b64)
HasIllegalChar(b64) == \E i \in 1..Len(b64) : b64[i] \notin Base64Chars

\* Buffer.from(b64, "base64"): characters outside the alphabet are skipped,
\* decoding stops at the first "=", and every four data characters give
\* three bytes.  It does not throw.
BufferOf(data) == [base64 |-> data, byteLength |-> (Len(data) * 3) \div 4]

UpTo(b64, stop) == IF stop = 0 THEN b64 ELSE SubSeq(b64, 1, stop - 1)

BufferFrom(b64) ==
  BufferOf(SelectSeq(UpTo(b64, IndexOf(b64, "=")), LAMBDA c : c \in Base64Chars))

\* ------------------------------------------------------------ sniffing

\* detectMime of ../media/mime.js on a decoded buffer: the signature table,
\* written on the base64 text of the leading bytes (PNG 89 50 4E 47 0D 0A,
\* JPEG FF D8 FF, ID3, an ftyp box, %PDF-).
detectMime(buffer) ==
  CASE StartsWith(buffer.base64, <<"i", "V", "B", "O", "R", "w", "0", "K">>) -> IMAGE_PNG
    [] StartsWith(buffer.base64, <<"/", "9", "j", "/">>) -> IMAGE_JPEG
    [] StartsWith(buffer.base64, <<"S", "U", "Q", "z">>) -> AUDIO_MPEG
    [] StartsWith(buffer.base64, <<"A", "A", "A", "A", "G", "G", "Z", "0", "e", "X", "A">>) -> VIDEO_MP4
    [] StartsWith(buffer.base64, <<"J", "V", "B", "E", "R", "i", "0">>) -> APPLICATION_PDF
    [] OTHER -> Undefined

\* Lines 51-64, on the normalized text.
SniffNormalized(normalized) ==
  LET take == Min(256, Len(normalized))
      sliceLen == take - (take % 4)
  IN  IF normalized = <<>> THEN Undefined
      ELSE IF sliceLen < 8 THEN Undefined
      ELSE detectMime(BufferFrom(SubSeq(normalized, 1, sliceLen)))

sniffMimeFromBase64(base64) == SniffNormalized(normalizeBase64ForDecode(base64))

isImageMime(mime) ==
  mime # Undefined /\ StartsWith(mime, <<"i", "m", "a", "g", "e", "/">>)

isAudioMime(mime) ==
  mime # Undefined /\ StartsWith(mime, <<"a", "u", "d", "i", "o", "/">>)

\* ------------------------------------------------------------- labels

\* A falsy string operand of ||.
Falsy(s) == s = Undefined \/ s = <<>>

\* att.fileName || att.type || `attachment-${idx + 1}` (idx counts from 0)
Label(att, idx) ==
  IF ~Falsy(att.fileName) THEN att.fileName
  ELSE IF ~Falsy(att.type) THEN att.type
  ELSE <<"attachment-", DigitChars[idx + 1]>>

\* att.mimeType ?? ""
MimeOrEmpty(att) == IF att.mimeType = Undefined THEN <<>> ELSE att.mimeType

\* The thrown errors, by their message.
ContentShapeError(label) == [message |-> "content must be base64 string", label |-> label]

InvalidBase64Error(label) == [message |-> "invalid base64 content", label |-> label]

SizeLimitError(label, sizeBytes, maxBytes) ==
  [message |-> "exceeds size limit", label |-> label, sizeBytes |-> sizeBytes,
   maxBytes |-> maxBytes]

OnlyImageError(label) == [message |-> "only image/* supported", label |-> label]

\* --------------------------------------------- getFirstAudioAttachment

\* A faulty variant of AudioSizeRejected: the ceiling itself is rejected.
AudioSizeRejectedAtLimit(byteLength, maxBytes) == byteLength <= 0 \/ byteLength >= maxBytes

\* buffer.byteLength <= 0 || buffer.byteLength > maxBytes
AudioSizeRejected(byteLength, maxBytes) == byteLength <= 0 \/ byteLength > maxBytes

\* normalizeMime(att.mimeType) ?? (await detectMime({ buffer })) ?? "audio/octet-stream"
AudioMimeType(declared, detected) ==
  IF declared # Undefined THEN declared
  ELSE IF detected # Undefined THEN detected
  ELSE AUDIO_OCTET_STREAM

\* Lines 143-148, with the buffer decoded and the type resolved.
AudioResult(buffer, mimeType) ==
  IF ~isAudioMime(mimeType)
    THEN [kind |-> "return", value |-> Null]
    ELSE [kind |-> "return", value |-> [buffer |-> buffer, mimeType |-> mimeType]]

\* Lines 132-148, with the content normalized and decoded.
AudioDecoded(att, label, b64, buffer, maxBytes) ==
  IF HasIllegalChar(b64)
    THEN [kind |-> "throw", error |-> InvalidBase64Error(label)]
  ELSE IF AudioSizeRejected(buffer.byteLength, maxBytes)
    THEN [kind |-> "throw", error |-> SizeLimitError(label, buffer.byteLength, maxBytes)]
  ELSE AudioResult(buffer, AudioMimeType(normalizeMime(att.mimeType), detectMime(buffer)))

AudioNormalized(att, label, b64, maxBytes) ==
  AudioDecoded(att, label, b64, BufferFrom(b64), maxBytes)

decodeAndValidateAudioAttachment(att, idx, maxBytes) ==
  AudioNormalized(att, Label(att, idx), normalizeBase64ForDecode(att.content), maxBytes)

\* A faulty variant of AudioDeclaredCandidate: a declared audio type never selects.
AudioDeclaredNever(att) == FALSE

\* const providedMime = normalizeMime(att.mimeType ?? "");
\* providedMime && isAudioMime(providedMime)
IsAudioCandidate(mime) == mime # Undefined /\ isAudioMime(mime)

AudioDeclaredCandidate(att) == IsAudioCandidate(normalizeMime(MimeOrEmpty(att)))

\* const sniffedMime = normalizeMime(await sniffMimeFromBase64(att.content));
\* sniffedMime && isAudioMime(sniffedMime)
AudioSniffedCandidate(att) ==
  IsAudioCandidate(normalizeMime(sniffMimeFromBase64(att.content)))

\* The decoding ends the loop: it throws, or its result is not null.
EndsLoop(decoded) == decoded.kind = "throw" \/ decoded.value # Null

\* One attachment of the loop with string content: whether its declared and
\* its sniffed type are audio, and what decoding it gives.  The value is
\* what the loop ends with, or Null when the loop goes on.
AudioStep(declaredIsAudio, sniffedIsAudio, decoded) ==
  IF declaredIsAudio /\ EndsLoop(decoded) THEN decoded
  ELSE IF sniffedIsAudio /\ EndsLoop(decoded) THEN decoded
  ELSE Null

AudioAttachment(att, idx, maxBytes) ==
  IF att = Null THEN Null
  ELSE IF att.content = NotString THEN Null
  ELSE AudioStep(AudioDeclaredCandidate(att), AudioSniffedCandidate(att),
                 decodeAndValidateAudioAttachment(att, idx, maxBytes))

RECURSIVE AudioLoop(_, _, _)
AudioNext(atts, i, maxBytes, ended) ==
  IF ended # Null THEN ended ELSE AudioLoop(atts, i + 1, maxBytes)

\* The for loop of getFirstAudioAttachment from position i (counting from 1).
AudioLoop(atts, i, maxBytes) ==
  IF i > Len(atts) THEN [kind |-> "return", value |-> Null]
  ELSE AudioNext(atts, i, maxBytes, AudioAttachment(atts[i], i - 1, maxBytes))

getFirstAudioAttachment(atts, maxBytes) ==
  IF Len(atts) = 0
    THEN [kind |-> "return", value |-> Null]
    ELSE AudioLoop(atts, 1, maxBytes)

\* ----------------------------------------- parseMessageWithAttachments

\* A faulty variant of ParseSizeRejected: an empty payload passes the size check.
ParseSizeRejectedAllowsEmpty(sizeBytes, maxBytes) == sizeBytes > maxBytes

\* sizeBytes <= 0 || sizeBytes > maxBytes
ParseSizeRejected(sizeBytes, maxBytes) == sizeBytes <= 0 \/ sizeBytes > maxBytes

\* A faulty variant of ParseContentRejected: the typeof test is missing.
ParseContentRejectedNever(att) == FALSE

\* typeof content !== "string"
ParseContentRejected(att) == att.content = NotString

\* Lines 180-188, with the content normalized.
ParseEncodingError(label, b64, sizeBytes, maxBytes) ==
  IF HasIllegalChar(b64) THEN InvalidBase64Error(label)
  ELSE IF ParseSizeRejected(sizeBytes, maxBytes)
    THEN SizeLimitError(label, sizeBytes, maxBytes)
  ELSE Null

ParseNormalizedError(label, b64, maxBytes) ==
  ParseEncodingError(label, b64, BufferFrom(b64).byteLength, maxBytes)

\* Lines 172-188: the error the attachment is rejected with, or Null.
ParseValidate(att, idx, maxBytes) ==
  IF ParseContentRejected(att) THEN ContentShapeError(Label(att, idx))
  ELSE ParseNormalizedError(Label(att, idx), normalizeBase64ForDecode(att.content), maxBytes)

\* A faulty variant of IsM4aAudio: the container override is missing.
IsM4aAudioNever(providedIsAudio, sniffedMime) == FALSE

\* const isM4aAudio = providedIsAudio && sniffedMime === "video/mp4"
IsM4aAudio(providedIsAudio, sniffedMime) == providedIsAudio /\ sniffedMime = VIDEO_MP4

\* A faulty variant of ResolvedMime: the declared type wins over the sniffed one.
ResolvedMimeDeclaredFirst(sniffedMime, providedMime, mime) ==
  IF providedMime # Undefined THEN providedMime
  ELSE IF sniffedMime # Undefined THEN sniffedMime
  ELSE mime

\* sniffedMime ?? providedMime ?? mime
ResolvedMime(sniffedMime, providedMime, mime) ==
  IF sniffedMime # Undefined THEN sniffedMime
  ELSE IF providedMime # Undefined THEN providedMime
  ELSE mime

\* log?.warn(`attachment ${label}: ...`)
Warn(label, text, mimes) == <<[label |-> label, text |-> text, mimes |-> mimes]>>

\* Lines 196-218, with the declared and the sniffed type normalized.
ClassifyMimes(label, mime, b64, providedMime, sniffedMime) ==
  IF sniffedMime # Undefined /\ ~isImageMime(sniffedMime)
    THEN [keep |-> FALSE,
          warns |-> IF /\ ~isAudioMime(sniffedMime)
                       /\ ~IsM4aAudio(isAudioMime(providedMime), sniffedMime)
                      THEN Warn(label, "detected non-image, dropping", <<sniffedMime>>)
                      ELSE <<>>]
  ELSE IF sniffedMime = Undefined /\ ~isImageMime(providedMime)
    THEN [keep |-> FALSE,
          warns |-> IF ~isAudioMime(providedMime)
                      THEN Warn(label, "unable to detect image mime type, dropping", <<>>)
                      ELSE <<>>]
  ELSE [keep |-> TRUE,
        warns |-> IF /\ sniffedMime # Undefined
                     /\ providedMime # Undefined
                     /\ sniffedMime # providedMime
                    THEN Warn(label, "mime mismatch, using sniffed",
                              <<providedMime, sniffedMime>>)
                    ELSE <<>>,
        image |-> [type |-> "image", data |-> b64,
                   mimeType |-> ResolvedMime(sniffedMime, providedMime, mime)]]

ClassifyNormalized(att, idx, b64) ==
  ClassifyMimes(Label(att, idx), MimeOrEmpty(att), b64, normalizeMime(MimeOrEmpty(att)),
                normalizeMime(sniffMimeFromBase64(b64)))

\* Lines 190-218 for an attachment that passed ParseValidate: whether it is
\* kept, the log.warn calls it makes, and the record pushed when kept.
ParseClassify(att, idx) == ClassifyNormalized(att, idx, normalizeBase64ForDecode(att.content))

\* A faulty variant of PushImage: the record is put at the front of the list.
PushImageFront(images, image) == <<image>> \o images

\* images.push(image)
PushImage(images, image) == Append(images, image)

RECURSIVE ParseLoop(_, _, _, _, _, _)
\* The attachment at position i passed validation and is classified.
ParseKeep(msg, atts, i, maxBytes, images, warns, class) ==
  ParseLoop(msg, atts, i + 1, maxBytes,
            IF class.keep THEN PushImage(images, class.image) ELSE images,
            warns \o class.warns)

\* The attachment at position i is validated: error is its error, or Null.
ParseChecked(msg, atts, i, maxBytes, images, warns, error) ==
  IF error # Null THEN [kind |-> "throw", error |-> error, warns |-> warns]
  ELSE ParseKeep(msg, atts, i, maxBytes, images, warns, ParseClassify(atts[i], i - 1))

\* The for loop of parseMessageWithAttachments from position i (counting
\* from 1), with the images pushed and the log.warn calls made so far.
ParseLoop(msg, atts, i, maxBytes, images, warns) ==
  IF i > Len(atts)
    THEN [kind |-> "return", value |-> [message |-> msg, images |-> images], warns |-> warns]
  ELSE IF atts[i] = Null THEN ParseLoop(msg, atts, i + 1, maxBytes, images, warns)
  ELSE ParseChecked(msg, atts, i, maxBytes, images, warns,
                    ParseValidate(atts[i], i - 1, maxBytes))

\* opts?.maxBytes ?? 5_000_000
ParseDefaultMaxBytes == 5000000

\* An optional number (opts?.maxBytes) is the set of at most one number.
OrDefault(optional, default) ==
  IF optional = {} THEN default ELSE CHOOSE n \in optional : TRUE

\* opts is [maxBytes, log]: maxBytes an optional number, log whether a log
\* is given.  The warnings are the calls made on opts.log; without a log
\* none is made.  attachments is an array (the !attachments test is the
\* empty-array case).
\* The calls made on opts.log, when a log is given.
Logged(out, log) == [out EXCEPT !.warns = IF log THEN out.warns ELSE <<>>]

parseMessageWithAttachments(msg, atts, opts) ==
  IF Len(atts) = 0
    THEN [kind |-> "return", value |-> [message |-> msg, images |-> <<>>], warns |-> <<>>]
    ELSE Logged(ParseLoop(msg, atts, 1, OrDefault(opts.maxBytes, ParseDefaultMaxBytes),
                          <<>>, <<>>),
                opts.log)

\* ----------------------------------------- buildMessageWithAttachments

\* label.replace(/\s+/g, "_"): every run of whitespace becomes one "_".
RECURSIVE SafeLabel(_)
SafeLabel(label) ==
  IF label = <<>> THEN <<>>
  ELSE IF IsWhitespace(Head(label))
    THEN <<"_">> \o SafeLabel(TrimStart(label))
  ELSE <<Head(label)>> \o SafeLabel(Tail(label))

\* b64.length % 4 !== 0 || /[^A-Za-z0-9+/=]/.test(b64), on content.trim()
BuildEncodingRejected(b64) == Len(b64) % 4 # 0 \/ HasIllegalChar(b64)

\* A faulty variant of BuildSizeRejected: the size check is missing.
BuildSizeRejectedNever(sizeBytes, maxBytes) == FALSE

\* sizeBytes <= 0 || sizeBytes > maxBytes
BuildSizeRejected(sizeBytes, maxBytes) == sizeBytes <= 0 \/ sizeBytes > maxBytes

\* Lines 256-268, with the content trimmed.
BuildEncodingError(label, b64, sizeBytes, maxBytes) ==
  IF BuildEncodingRejected(b64) THEN InvalidBase64Error(label)
  ELSE IF BuildSizeRejected(sizeBytes, maxBytes)
    THEN SizeLimitError(label, sizeBytes, maxBytes)
  ELSE Null

BuildTrimmedError(label, b64, maxBytes) ==
  BuildEncodingError(label, b64, BufferFrom(b64).byteLength, maxBytes)

\* Lines 248-268: the error the attachment is rejected with, or Null.
BuildValidate(att, idx, maxBytes) ==
  IF att.content = NotString THEN ContentShapeError(Label(att, idx))
  ELSE IF ~StartsWith(MimeOrEmpty(att), <<"i", "m", "a", "g", "e", "/">>)
    THEN OnlyImageError(Label(att, idx))
  ELSE BuildTrimmedError(Label(att, idx), Trim(att.content), maxBytes)

\* `![${safeLabel}](data:${mime};base64,${content})`
DataUrlBlock(att, idx) ==
  <<"!", "[">> \o SafeLabel(Label(att, idx)) \o <<"]", "(", "d", "a", "t", "a", ":">>
    \o MimeOrEmpty(att) \o <<";", "b", "a", "s", "e", "6", "4", ",">> \o att.content
    \o <<")">>

\* blocks.join("\n\n")
RECURSIVE JoinBlocks(_)
JoinBlocks(blocks) ==
  IF blocks = <<>> THEN <<>>
  ELSE IF Len(blocks) = 1 THEN Head(blocks)
  ELSE Head(blocks) \o <<"\n", "\n">> \o JoinBlocks(Tail(blocks))

RECURSIVE BuildLoop(_, _, _, _, _)
\* The attachment at position i is validated: error is its error, or Null.
BuildChecked(msg, atts, i, maxBytes, blocks, error) ==
  IF error # Null THEN [kind |-> "throw", error |-> error]
  ELSE BuildLoop(msg, atts, i + 1, maxBytes, Append(blocks, DataUrlBlock(atts[i], i - 1)))

\* The for loop of buildMessageWithAttachments from position i (counting
\* from 1), with the blocks pushed so far.
BuildLoop(msg, atts, i, maxBytes, blocks) ==
  IF i > Len(atts)
    THEN [kind |-> "return",
          value |-> IF blocks = <<>> THEN msg
                    ELSE msg \o (IF Len(Trim(msg)) > 0 THEN <<"\n", "\n">> ELSE <<>>)
                             \o JoinBlocks(blocks)]
  ELSE IF atts[i] = Null THEN BuildLoop(msg, atts, i + 1, maxBytes, blocks)
  ELSE BuildChecked(msg, atts, i, maxBytes, blocks, BuildValidate(atts[i], i - 1, maxBytes))

\* opts?.maxBytes ?? 2_000_000
BuildDefaultMaxBytes == 2000000

buildMessageWithAttachments(msg, atts, opts) ==
  IF Len(atts) = 0
    THEN [kind |-> "return", value |-> msg]
    ELSE BuildLoop(msg, atts, 1, OrDefault(opts.maxBytes, BuildDefaultMaxBytes), <<>>)

\* -------------------------------------------------------------- inputs

\* The longest attachment list.
MaxAtts == 3

\* Payloads, as the base64 text a client sends.
PNG_6 == <<"i", "V", "B", "O", "R", "w", "0", "K">>
PNG_8 == <<"i", "V", "B", "O", "R", "w", "0", "K", "G", "g", "o", "=">>
PNG_9 == <<"i", "V", "B", "O", "R", "w", "0", "K", "G", "g", "o", "A">>
PNG_3 == <<"i", "V", "B", "O">>
PNG_PADDED_BY_SPACE == <<" ", "i", "V", "B", "O", "R", "w", "0", "K", " ">>
PNG_DATA_URL ==
  <<"d", "a", "t", "a", ":", "i", "m", "a", "g", "e", "/", "p", "n", "g", ";", "b", "a", "s",
    "e", "6", "4", ",", "i", "V", "B", "O", "R", "w", "0", "K">>
JPEG_6 == <<"/", "9", "j", "/", "4", "A", "A", "Q">>
JPEG_5_URLSAFE == <<"_", "9", "j", "_", "4", "A", "A">>
MP3_6 == <<"S", "U", "Q", "z", "B", "A", "A", "A">>
MP3_6_V3 == <<"S", "U", "Q", "z", "A", "w", "A", "A">>
MP3_ILLEGAL == <<"S", "U", "Q", "z", "B", "A", "!", "A">>
MP4_8 == <<"A", "A", "A", "A", "G", "G", "Z", "0", "e", "X", "A", "=">>
UNKNOWN_6 == <<"Q", "U", "J", "D", "R", "E", "V", "G">>
PNG_ILLEGAL == <<"i", "V", "B", "O", "R", "w", "0", "!">>

Contents ==
  {PNG_8, PNG_9, PNG_3, PNG_PADDED_BY_SPACE, PNG_DATA_URL, JPEG_6, JPEG_5_URLSAFE, MP3_6,
   MP3_ILLEGAL, MP4_8, UNKNOWN_6, <<>>, NotString}

DeclaredMimes == {Undefined, IMAGE_PNG, IMAGE_PNG_RAW, AUDIO_M4A, APPLICATION_PDF}

Attachment(content, mimeType) ==
  [type |-> Undefined, mimeType |-> mimeType, fileName |-> Undefined, content |-> content]

\* The attachments every position of a list is drawn from.
CoreAttachments ==
  {Attachment(PNG_6, IMAGE_PNG), Attachment(MP3_6_V3, AUDIO_M4A),
   Attachment(PNG_ILLEGAL, IMAGE_PNG)}

\* The attachments one position of a list is drawn from.
ProbeAttachments ==
  {Attachment(c, m) : c \in Contents, m \in DeclaredMimes}
    \cup {Null,
          [type |-> <<"i", "m", "g">>, mimeType |-> IMAGE_PNG, fileName |-> Undefined,
           content |-> PNG_9],
          [type |-> <<"i", "m", "g">>, mimeType |-> IMAGE_PNG,
           fileName |-> <<"a", " ", " ", "b">>, content |-> PNG_6]}

\* The lists of length n: core attachments, at most one position a probe.
ListsOfLength(n) ==
  [1..n -> CoreAttachments]
    \cup {[s EXCEPT ![i] = p] : s \in [1..n -> CoreAttachments], i \in 1..n,
                                 p \in ProbeAttachments}

AttachmentLists == UNION {ListsOfLength(n) : n \in 0..MaxAtts}

\* The ceilings the calls are made with, beside the defaults.
SmallCeilings == {8}

NoOpts == [maxBytes |-> {}, log |-> FALSE]

ParseArgs ==
  {[message |-> <<>>, opts |-> NoOpts]}
    \cup {[message |-> <<"h", "i">>, opts |-> [maxBytes |-> {c}, log |-> TRUE]] :
            c \in SmallCeilings}

AudioArgs == {[maxBytes |-> c] : c \in SmallCeilings \cup {ParseDefaultMaxBytes}}

BuildArgs ==
  {[message |-> <<>>, opts |-> NoOpts]}
    \cup {[message |-> <<"h", "i">>, opts |-> [maxBytes |-> {c}, log |-> FALSE]] :
            c \in SmallCeilings}

\* ------------------------------------------------------- state machine

NotCalled == [called |-> FALSE]

Init ==
  /\ attachments \in AttachmentLists
  /\ parsed = NotCalled
  /\ audio = NotCalled
  /\ built = NotCalled

CallParse ==
  /\ parsed = NotCalled
  /\ \E args \in ParseArgs :
       parsed' = [called |-> TRUE, args |-> args,
                  result |-> parseMessageWithAttachments(args.message, attachments, args.opts)]
  /\ UNCHANGED <<attachments, audio, built>>

CallAudio ==
  /\ audio = NotCalled
  /\ \E args \in AudioArgs :
       audio' = [called |-> TRUE, args |-> args,
                 result |-> getFirstAudioAttachment(attachments, args.maxBytes)]
  /\ UNCHANGED <<attachments, parsed, built>>

CallBuild ==
  /\ built = NotCalled
  /\ \E args \in BuildArgs :
       built' = [called |-> TRUE, args |-> args,
                 result |-> buildMessageWithAttachments(args.message, attachments, args.opts)]
  /\ UNCHANGED <<attachments, parsed, audio>>

Next == CallParse \/ CallAudio \/ CallBuild

Spec == Init /\ [][Next]_vars

\* ---------------------------------------------- vocabulary of the claims

\* The declared type, normalized, and the sniffed type of an attachment
\* with string content.
Declared(att) == normalizeMime(att.mimeType)

Sniffed(att) == normalizeMime(sniffMimeFromBase64(att.content))

\* The canonical base64 text of the content and the length it decodes to.
Canonical(att) == normalizeBase64ForDecode(att.content)

DecodedLength(att) == BufferFrom(Canonical(att)).byteLength

IsStringContent(att) == att # Null /\ att.content # NotString

\* Valid content: legal base64 of decoded length within [1, maxBytes].
ValidContent(att, maxBytes) ==
  /\ IsStringContent(att)
  /\ ~HasIllegalChar(Canonical(att))
  /\ DecodedLength(att) >= 1
  /\ DecodedLength(att) <= maxBytes

\* An attachment with a validation failure.
Invalid(att, maxBytes) == att # Null /\ ~ValidContent(att, maxBytes)

\* The attachment is an image for the classifier: by its sniffed type, or
\* by its declared type when sniffing finds nothing.
KeptAsImage(att) ==
  IF Sniffed(att) # Undefined THEN isImageMime(Sniffed(att)) ELSE isImageMime(Declared(att))

KeptAttachments == SelectSeq(attachments, LAMBDA a : a # Null /\ KeptAsImage(a))

\* The ceiling of the parseMessageWithAttachments call made.
ParseCeiling == OrDefault(parsed.args.opts.maxBytes, ParseDefaultMaxBytes)

BuildCeiling == OrDefault(built.args.opts.maxBytes, BuildDefaultMaxBytes)

ParseReturned == parsed.called /\ parsed.result.kind = "return"

AudioReturned == audio.called /\ audio.result.kind = "return"

BuildReturned == built.called /\ built.result.kind = "return"

\* getFirstAudioAttachment passes over every attachment before position i.
AudioPassesOverPrefix(i) ==
  LET r == getFirstAudioAttachment(SubSeq(attachments, 1, i - 1), audio.args.maxBytes)
  IN  r.kind = "return" /\ r.value = Null

\* ------------------------------------------------------------------- C1

\* C1: when parseMessageWithAttachments returns, its images list holds
\* exactly the attachments the classifier keeps as images, one record each,
\* in input order, and the message is the input message.
C1_ImagesAreOrderedSubsequence ==
  ParseReturned =>
    LET images == parsed.result.value.images
    IN  /\ Len(images) = Len(KeptAttachments)
        /\ \A k \in 1..Len(images) :
             /\ images[k].type = "image"
             /\ images[k].data = Canonical(KeptAttachments[k])
        /\ parsed.result.value.message = parsed.args.message

\* Two different images are kept around a dropped audio attachment.
C1_Witness ==
  /\ ParseReturned
  /\ Len(attachments) = 3
  /\ IsStringContent(attachments[2])
  /\ isAudioMime(Sniffed(attachments[2]))
  /\ Len(parsed.result.value.images) = 2
  /\ parsed.result.value.images[1].data # parsed.result.value.images[2].data
  /\ parsed.args.message # <<>>

\* ------------------------------------------------------------------- C2

\* C2: an attachment with string content and a declared audio type, reached
\* with nothing returned or failed before it, decides the call of
\* getFirstAudioAttachment: its buffer is returned, or the call fails with
\* its validation error; no later attachment and no "none" is returned.
C2_FirstByIndex ==
  audio.called =>
    \A i \in 1..Len(attachments) :
      LET att == attachments[i]
          maxBytes == audio.args.maxBytes
          label == Label(att, i - 1)
      IN  (IsStringContent(att) /\ isAudioMime(Declared(att)) /\ AudioPassesOverPrefix(i)) =>
            IF HasIllegalChar(Canonical(att))
              THEN /\ audio.result.kind = "throw"
                   /\ audio.result.error = InvalidBase64Error(label)
            ELSE IF DecodedLength(att) = 0 \/ DecodedLength(att) > maxBytes
              THEN /\ audio.result.kind = "throw"
                   /\ audio.result.error = SizeLimitError(label, DecodedLength(att), maxBytes)
            ELSE /\ audio.result.kind = "return"
                 /\ audio.result.value # Null
                 /\ audio.result.value.buffer = BufferFrom(Canonical(att))

\* [image, audio_X, audio_Y] returns audio_X's buffer.
C2_Witness ==
  /\ AudioReturned
  /\ Len(attachments) = 3
  /\ \A k \in 1..3 : IsStringContent(attachments[k])
  /\ ValidContent(attachments[1], audio.args.maxBytes)
  /\ KeptAsImage(attachments[1])
  /\ isAudioMime(Declared(attachments[2]))
  /\ isAudioMime(Declared(attachments[3]))
  /\ ValidContent(attachments[3], audio.args.maxBytes)
  /\ Canonical(attachments[2]) # Canonical(attachments[3])
  /\ audio.result.value # Null
  /\ audio.result.value.buffer = BufferFrom(Canonical(attachments[2]))

\* ------------------------------------------------------------------- C3

\* The error parseMessageWithAttachments raises for an invalid attachment.
ExpectedValidationError(att, idx, maxBytes) ==
  IF att.content = NotString THEN ContentShapeError(Label(att, idx))
  ELSE IF HasIllegalChar(Canonical(att)) THEN InvalidBase64Error(Label(att, idx))
  ELSE SizeLimitError(Label(att, idx), DecodedLength(att), maxBytes)

\* C3: in parseMessageWithAttachments an attachment with a validation
\* failure fails the whole call, whatever its type and whatever precedes
\* it; the error names the first such attachment and nothing is returned.
C3_ValidationFailureIsFatal ==
  parsed.called =>
    \A i \in 1..Len(attachments) :
      Invalid(attachments[i], ParseCeiling) =>
        /\ parsed.result.kind = "throw"
        /\ (\A j \in 1..(i - 1) : ~Invalid(attachments[j], ParseCeiling)) =>
             parsed.result.error = ExpectedValidationError(attachments[i], i - 1, ParseCeiling)

\* Two valid images precede an audio attachment with an illegal character.
C3_Witness ==
  /\ parsed.called
  /\ Len(attachments) = 3
  /\ ValidContent(attachments[1], ParseCeiling) /\ KeptAsImage(attachments[1])
  /\ ValidContent(attachments[2], ParseCeiling) /\ KeptAsImage(attachments[2])
  /\ IsStringContent(attachments[3])
  /\ isAudioMime(Declared(attachments[3]))
  /\ HasIllegalChar(Canonical(attachments[3]))
  /\ parsed.result.kind = "throw"
  /\ parsed.result.error = InvalidBase64Error(<<"attachment-", "3">>)

\* ------------------------------------------------------------------- C4

\* Both paths were called on the list with the same ceiling.
SameCeilingParseAudio ==
  parsed.called /\ audio.called /\ ParseCeiling = audio.args.maxBytes

\* C4: an attachment with valid content is never both kept in the images
\* list by parseMessageWithAttachments and selected as audio by
\* getFirstAudioAttachment called on that attachment with the same ceiling.
C4_AtMostOneCategory ==
  (SameCeilingParseAudio /\ Len(attachments) = 1) =>
    ~ /\ parsed.result.kind = "return"
      /\ Len(parsed.result.value.images) = 1
      /\ audio.result.kind = "return"
      /\ audio.result.value # Null

\* ------------------------------------------------------------------- C5

\* C5: an attachment with valid content whose sniffed type is audio,
\* reached with no earlier attachment qualifying, is the one
\* getFirstAudioAttachment returns, whatever its declared type.
C5_SniffedAudioIsSelected ==
  audio.called =>
    \A i \in 1..Len(attachments) :
      LET att == attachments[i]
      IN  (/\ ValidContent(att, audio.args.maxBytes)
           /\ isAudioMime(Sniffed(att))
           /\ AudioPassesOverPrefix(i)) =>
            /\ audio.result.kind = "return"
            /\ audio.result.value # Null
            /\ audio.result.value.buffer = BufferFrom(Canonical(att))

\* ------------------------------------------------------------------- C6

\* The container override case: declared audio, sniffed as video/mp4.
IsContainerOverride(att) == isAudioMime(Declared(att)) /\ Sniffed(att) = VIDEO_MP4

\* No other attachment of the list has the label or the canonical content
\* of the attachment at position i, so that its warnings and its image
\* record can be told from the others'.
Distinguishable(i) ==
  \A j \in 1..Len(attachments) :
    (j # i /\ attachments[j] # Null) =>
      /\ Label(attachments[j], j - 1) # Label(attachments[i], i - 1)
      /\ attachments[j].content = NotString
           \/ Canonical(attachments[j]) # Canonical(attachments[i])

\* The log.warn calls made for the attachment at position i.
WarningsFor(i) ==
  SelectSeq(parsed.result.warns, LAMBDA w : w.label = Label(attachments[i], i - 1))

\* The image records holding the content of the attachment at position i.
ImagesFor(i) ==
  SelectSeq(parsed.result.value.images, LAMBDA r : r.data = Canonical(attachments[i]))

\* C6: an attachment with valid content, declared audio and sniffed as
\* video/mp4, is left out of the images list without a warning by
\* parseMessageWithAttachments and is selected by getFirstAudioAttachment,
\* with its declared type, when no earlier attachment qualifies; one
\* sniffed as video/mp4 and not declared audio is dropped by
\* parseMessageWithAttachments with exactly one warning on the log given.
C6_ContainerOverride ==
  /\ (ParseReturned /\ parsed.args.opts.log) =>
       \A i \in 1..Len(attachments) :
         LET att == attachments[i]
         IN  (att # Null /\ Sniffed(att) = VIDEO_MP4 /\ Distinguishable(i)) =>
               /\ ImagesFor(i) = <<>>
               /\ IF isAudioMime(Declared(att))
                    THEN WarningsFor(i) = <<>>
                    ELSE /\ Len(WarningsFor(i)) = 1
                         /\ WarningsFor(i)[1].text = "detected non-image, dropping"
  /\ audio.called =>
       \A i \in 1..Len(attachments) :
         LET att == attachments[i]
         IN  (/\ ValidContent(att, audio.args.maxBytes)
              /\ IsContainerOverride(att)
              /\ AudioPassesOverPrefix(i)) =>
               /\ audio.result.kind = "return"
               /\ audio.result.value
                    = [buffer |-> BufferFrom(Canonical(att)), mimeType |-> Declared(att)]

\* An audio/m4a attachment sniffed as video/mp4 follows an image: both
\* paths ran, the lenient one kept only the image and warned of nothing,
\* the audio one returned the attachment.
C6_Witness ==
  /\ ParseReturned /\ parsed.args.opts.log
  /\ AudioReturned
  /\ Len(attachments) = 2
  /\ IsStringContent(attachments[2])
  /\ IsContainerOverride(attachments[2])
  /\ Len(parsed.result.value.images) = 1
  /\ parsed.result.warns = <<>>
  /\ audio.result.value # Null
  /\ audio.result.value.buffer = BufferFrom(Canonical(attachments[2]))
  /\ audio.result.value.mimeType = AUDIO_M4A

\* ------------------------------------------------------------------- C7

\* No other attachment of the list has the label of the one at position i.
LabelUnique(i) ==
  \A j \in 1..Len(attachments) :
    (j # i /\ attachments[j] # Null) =>
      Label(attachments[j], j - 1) # Label(attachments[i], i - 1)

\* The number of attachments kept as images up to position i.
KeptUpTo(i) == Cardinality({j \in 1..i : attachments[j] # Null /\ KeptAsImage(attachments[j])})

\* C7: in parseMessageWithAttachments, with every attachment valid, the call
\* returns; an attachment sniffed as an image is kept with the sniffed type;
\* exactly one warning, with its label and both types, is made for it when
\* the declared type is present and differs, and none otherwise.
C7_MismatchWarnsSniffWins ==
  (/\ parsed.called
   /\ parsed.args.opts.log
   /\ \A j \in 1..Len(attachments) : ~Invalid(attachments[j], ParseCeiling)) =>
    /\ parsed.result.kind = "return"
    /\ \A i \in 1..Len(attachments) :
         LET att == attachments[i]
         IN  (att # Null /\ isImageMime(Sniffed(att))) =>
               /\ KeptUpTo(i) <= Len(parsed.result.value.images)
               /\ parsed.result.value.images[KeptUpTo(i)].data = Canonical(att)
               /\ parsed.result.value.images[KeptUpTo(i)].mimeType = Sniffed(att)
               /\ LabelUnique(i) =>
                    WarningsFor(i) =
                      IF Declared(att) # Undefined /\ Declared(att) # Sniffed(att)
                        THEN <<[label |-> Label(att, i - 1),
                                text |-> "mime mismatch, using sniffed",
                                mimes |-> <<Declared(att), Sniffed(att)>>]>>
                        ELSE <<>>

\* An attachment declared image/png with a JPEG signature is kept as
\* image/jpeg, with one warning.
C7_Witness ==
  /\ ParseReturned /\ parsed.args.opts.log
  /\ Len(attachments) = 2
  /\ IsStringContent(attachments[2])
  /\ Declared(attachments[2]) = IMAGE_PNG
  /\ Sniffed(attachments[2]) = IMAGE_JPEG
  /\ Len(parsed.result.value.images) = 2
  /\ parsed.result.value.images[2].mimeType = IMAGE_JPEG
  /\ Len(parsed.result.warns) = 1
  /\ parsed.result.warns[1].mimes = <<IMAGE_PNG, IMAGE_JPEG>>

\* ------------------------------------------------------------------- C8

InCeiling(length, maxBytes) == 1 <= length /\ length <= maxBytes

IsSizeError(result) == result.kind = "throw" /\ result.error.message = "exceeds size limit"

\* The first attachment parseMessageWithAttachments rejects is at position
\* i, for its decoded length.
ParseSizeFailureAt(i) ==
  /\ IsStringContent(attachments[i])
  /\ ~HasIllegalChar(Canonical(attachments[i]))
  /\ ~InCeiling(DecodedLength(attachments[i]), ParseCeiling)
  /\ \A j \in 1..(i - 1) : ~Invalid(attachments[j], ParseCeiling)

\* The attachment is a candidate of getFirstAudioAttachment.
AudioCandidate(att) == isAudioMime(Declared(att)) \/ isAudioMime(Sniffed(att))

AudioSizeFailureAt(i) ==
  /\ IsStringContent(attachments[i])
  /\ AudioCandidate(attachments[i])
  /\ ~HasIllegalChar(Canonical(attachments[i]))
  /\ ~InCeiling(DecodedLength(attachments[i]), audio.args.maxBytes)
  /\ AudioPassesOverPrefix(i)

\* The legacy path's reading of the content: trimmed, not normalized.
LegacyLength(att) == BufferFrom(Trim(att.content)).byteLength

LegacyLegal(att) ==
  /\ IsStringContent(att)
  /\ StartsWith(MimeOrEmpty(att), <<"i", "m", "a", "g", "e", "/">>)
  /\ Len(Trim(att.content)) % 4 = 0
  /\ ~HasIllegalChar(Trim(att.content))

LegacyAccepts(att, maxBytes) ==
  att = Null \/ (LegacyLegal(att) /\ InCeiling(LegacyLength(att), maxBytes))

BuildSizeFailureAt(i) ==
  /\ LegacyLegal(attachments[i])
  /\ ~InCeiling(LegacyLength(attachments[i]), BuildCeiling)
  /\ \A j \in 1..(i - 1) : LegacyAccepts(attachments[j], BuildCeiling)

\* C8: on each path content of legal encoding and decoded length L passes
\* the size check exactly when 1 <= L <= maxBytes; the size error gives L
\* and maxBytes; every image kept and every audio buffer returned has a
\* length within [1, maxBytes].
C8_SizeBoundary ==
  /\ parsed.called =>
       /\ IsSizeError(parsed.result) <=> \E i \in 1..Len(attachments) : ParseSizeFailureAt(i)
       /\ \A i \in 1..Len(attachments) :
            ParseSizeFailureAt(i) =>
              /\ parsed.result.error.sizeBytes = DecodedLength(attachments[i])
              /\ parsed.result.error.maxBytes = ParseCeiling
       /\ parsed.result.kind = "return" =>
            \A k \in 1..Len(parsed.result.value.images) :
              InCeiling(BufferFrom(parsed.result.value.images[k].data).byteLength,
                        ParseCeiling)
  /\ audio.called =>
       /\ IsSizeError(audio.result) <=> \E i \in 1..Len(attachments) : AudioSizeFailureAt(i)
       /\ \A i \in 1..Len(attachments) :
            AudioSizeFailureAt(i) =>
              /\ audio.result.error.sizeBytes = DecodedLength(attachments[i])
              /\ audio.result.error.maxBytes = audio.args.maxBytes
       /\ (audio.result.kind = "return" /\ audio.result.value # Null) =>
            InCeiling(audio.result.value.buffer.byteLength, audio.args.maxBytes)
  /\ built.called =>
       /\ IsSizeError(built.result) <=> \E i \in 1..Len(attachments) : BuildSizeFailureAt(i)
       /\ \A i \in 1..Len(attachments) :
            BuildSizeFailureAt(i) =>
              /\ built.result.error.sizeBytes = LegacyLength(attachments[i])
              /\ built.result.error.maxBytes = BuildCeiling
       /\ built.result.kind = "return" =>
            \A i \in 1..Len(attachments) :
              attachments[i] # Null => InCeiling(LegacyLength(attachments[i]), BuildCeiling)

\* A payload of exactly maxBytes bytes is kept as an image and returned as
\* the audio buffer.
C8_Witness ==
  /\ ParseReturned
  /\ AudioReturned
  /\ ParseCeiling = audio.args.maxBytes
  /\ Len(parsed.result.value.images) = 1
  /\ BufferFrom(parsed.result.value.images[1].data).byteLength = ParseCeiling
  /\ audio.result.value # Null
  /\ audio.result.value.buffer.byteLength = audio.args.maxBytes

\* ------------------------------------------------------------------- C9

HasNonStringContent(att) == att # Null /\ att.content = NotString

\* parseMessageWithAttachments fails with the content-shape error of the
\* attachment at position i when it is the first it rejects.
ParseRejectsNonString ==
  parsed.called =>
    \A i \in 1..Len(attachments) :
      (/\ HasNonStringContent(attachments[i])
       /\ \A j \in 1..(i - 1) : ~Invalid(attachments[j], ParseCeiling)) =>
        /\ parsed.result.kind = "throw"
        /\ parsed.result.error = ContentShapeError(Label(attachments[i], i - 1))

\* The same of buildMessageWithAttachments.
BuildRejectsNonString ==
  built.called =>
    \A i \in 1..Len(attachments) :
      (/\ HasNonStringContent(attachments[i])
       /\ \A j \in 1..(i - 1) : LegacyAccepts(attachments[j], BuildCeiling)) =>
        /\ built.result.kind = "throw"
        /\ built.result.error = ContentShapeError(Label(attachments[i], i - 1))

\* C9 as claimed: on each of the three paths an attachment whose content is
\* not a string, reached with nothing returned or failed before it, fails
\* the call with the content-shape error of that attachment.
C9_NonStringContentIsFatal ==
  /\ ParseRejectsNonString
  /\ BuildRejectsNonString
  /\ audio.called =>
       \A i \in 1..Len(attachments) :
         (HasNonStringContent(attachments[i]) /\ AudioPassesOverPrefix(i)) =>
           /\ audio.result.kind = "throw"
           /\ audio.result.error = ContentShapeError(Label(attachments[i], i - 1))

\* C9 as amended: content that is not a string is fatal to
\* parseMessageWithAttachments and buildMessageWithAttachments;
\* getFirstAudioAttachment never raises the content-shape error: it passes
\* over such an attachment and goes on to the later ones.
C9_NonStringFatalExceptAudio ==
  /\ ParseRejectsNonString
  /\ BuildRejectsNonString
  /\ audio.called =>
       /\ audio.result.kind = "throw" =>
            audio.result.error.message # "content must be base64 string"
       /\ (\A i \in 1..Len(attachments) :
             attachments[i] = Null \/ HasNonStringContent(attachments[i])) =>
            (audio.result.kind = "return" /\ audio.result.value = Null)
       /\ \A i \in 1..(Len(attachments) - 1) :
            (/\ HasNonStringContent(attachments[i])
             /\ AudioPassesOverPrefix(i)
             /\ ValidContent(attachments[i + 1], audio.args.maxBytes)
             /\ isAudioMime(Declared(attachments[i + 1]))) =>
              /\ audio.result.kind = "return"
              /\ audio.result.value # Null
              /\ audio.result.value.buffer = BufferFrom(Canonical(attachments[i + 1]))

\* The list starts with an attachment whose content is not a string: the
\* lenient and the legacy calls failed on it, the audio call returned the
\* audio attachment after it.
C9_Witness ==
  /\ parsed.called /\ audio.called /\ built.called
  /\ Len(attachments) >= 2
  /\ HasNonStringContent(attachments[1])
  /\ parsed.result.kind = "throw"
  /\ parsed.result.error = ContentShapeError(<<"attachment-", "1">>)
  /\ built.result.kind = "throw"
  /\ built.result.error = ContentShapeError(<<"attachment-", "1">>)
  /\ audio.result.kind = "return"
  /\ audio.result.value # Null
  /\ audio.result.value.buffer = BufferFrom(Canonical(attachments[2]))

\* ------------------------------------------------------------------ C10

SameCeilingParseBuild == parsed.called /\ built.called /\ ParseCeiling = BuildCeiling

\* C10 as claimed: for content declared image/*, the legacy path accepts
\* exactly what the lenient path's validation accepts, and rejects with the
\* same error otherwise.
C10_ValidatorIsUniform ==
  (/\ SameCeilingParseBuild
   /\ Len(attachments) = 1
   /\ IsStringContent(attachments[1])
   /\ StartsWith(MimeOrEmpty(attachments[1]), <<"i", "m", "a", "g", "e", "/">>)) =>
    /\ built.result.kind = "return" <=> parsed.result.kind = "return"
    /\ (built.result.kind = "throw" /\ parsed.result.kind = "throw") =>
         built.result.error.message = parsed.result.error.message

\* C10 as amended: with the same ceiling, what the legacy path accepts the
\* lenient path's validation accepts, and a size error of the legacy path
\* is the lenient path's error; the legacy path does not normalize:
\* content declared image/* that is not already canonical (unpadded,
\* URL-safe alphabet, data-URL prefix) fails there as invalid base64.
C10_LegacyIsStricter ==
  SameCeilingParseBuild =>
    /\ built.result.kind = "return" => parsed.result.kind = "return"
    /\ IsSizeError(built.result) =>
         (parsed.result.kind = "throw" /\ parsed.result.error = built.result.error)
    /\ (/\ Len(attachments) = 1
        /\ IsStringContent(attachments[1])
        /\ StartsWith(MimeOrEmpty(attachments[1]), <<"i", "m", "a", "g", "e", "/">>)
        /\ Canonical(attachments[1]) # Trim(attachments[1].content)) =>
         /\ built.result.kind = "throw"
         /\ built.result.error = InvalidBase64Error(Label(attachments[1], 0))

\* Unpadded URL-safe content declared image/png: the lenient call kept it
\* as an image, the legacy call failed on it.
C10_Witness ==
  /\ SameCeilingParseBuild
  /\ Len(attachments) = 1
  /\ IsStringContent(attachments[1])
  /\ attachments[1].mimeType = IMAGE_PNG
  /\ Canonical(attachments[1]) # Trim(attachments[1].content)
  /\ parsed.result.kind = "return"
  /\ Len(parsed.result.value.images) = 1
  /\ built.result.kind = "throw"
  /\ built.result.error.message = "invalid base64 content"
====
